---- MODULE Spec2Model ----
(***************************************************************************)
(* cosmosclient.Client: CreateTx, WaitForBlockHeight and WaitForTx, driven *)
(* against the collaborators the test suite substitutes (node RPC, account *)
(* retriever, bank query client, gasometer, faucet client, signer).        *)
(*                                                                         *)
(* Strings whose content the client inspects (gas, fees, gas prices, tx    *)
(* hash) are sequences of one-character strings, so parsing is computed.   *)
(* Errors are sequences of message parts, outermost wrapping first; the    *)
(* nil error is the empty sequence.                                        *)
(***************************************************************************)
EXTENDS Integers, Sequences, FiniteSets, TLC

VARIABLES
    cfg,        \* client configuration, fixed at construction
    op,         \* the call in progress: "none", "CreateTx", "WaitForBlockHeight", "WaitForTx"
    pc,         \* position of the call
    calls,      \* collaborator calls issued by the call, in order
    txf,        \* transaction factory state of the CreateTx call
    res,        \* value returned by the call
    err,        \* error returned by the call (<<>> is nil)
    height,     \* latest block height of the node
    hasDeadline,\* the caller's context carries a deadline
    expired,    \* the caller's context deadline has elapsed
    target,     \* block height WaitForBlockHeight waits for
    hash,       \* tx hash given to WaitForTx
    client,     \* what construction captured: chain id of the context, base TxFactory
    network,    \* network name the node reports in its status
    prefix,     \* address prefix the client was built with
    keyring,    \* accounts of the client's AccountRegistry
    lookups,    \* account and address resolutions made so far, with their results
    q,          \* the query.Query value the builder calls are chained on
    qops,       \* builder calls applied to q since it was created
    heap,       \* backing arrays of the slices the queries hold
    derived,    \* queries obtained from q by a call whose result was kept beside q
    parked      \* the call that is not running, when two calls share the client

clientVars == <<client, network>>
accountVars == <<prefix, keyring, lookups>>
queryVars == <<q, qops, heap, derived>>

vars == <<cfg, op, pc, calls, txf, res, err, height, hasDeadline, expired, target, hash,
          clientVars, accountVars, queryVars, parked>>

----------------------------------------------------------------------------
(* Bounds of the model *)

\* the node produces blocks up to this height
MaxHeight == 2
\* a polling call issues at most this many collaborator calls
MaxCalls == 7
\* and at most this many when another call runs on the client at the same time
MaxPairCalls == 4

----------------------------------------------------------------------------
(* Constants of the program *)

defaultFaucetMinAmount == 100
DefaultGasLimit == 300000
SimulatedGasMargin == 20000
DefaultGasAdjustment == 1

defaultFaucetDenom == <<"t", "o", "k", "e", "n">>
ChainID == "mychain"
NodeAddress == <<"http://localhost:26657">>

----------------------------------------------------------------------------
(* Strings *)

Digits == <<"0", "1", "2", "3", "4", "5", "6", "7", "8", "9">>
HexLetters == {"a", "b", "c", "d", "e", "f", "A", "B", "C", "D", "E", "F"}

IsDigit(c) == \E i \in 1..10 : Digits[i] = c

DigitVal(c) == (CHOOSE i \in 1..10 : Digits[i] = c) - 1

IsHexChar(c) == IsDigit(c) \/ c \in HexLetters

RECURSIVE DecimalValue(_)
DecimalValue(s) ==
    IF s = <<>> THEN 0
    ELSE 10 * DecimalValue(SubSeq(s, 1, Len(s) - 1)) + DigitVal(s[Len(s)])

\* strconv.ParseUint(s, 10, 64): fails on the empty string and on any non-digit
ParseUintOk(s) == s # <<>> /\ \A i \in 1..Len(s) : IsDigit(s[i])

\* length of the leading run of digits of s
RECURSIVE LeadingDigits(_)
LeadingDigits(s) ==
    IF s = <<>> \/ ~IsDigit(s[1]) THEN 0
    ELSE 1 + LeadingDigits(Tail(s))

\* a coin string "<amount><denom>" parsed to its coins; "" is no coin at all
ParseCoins(s) ==
    IF s = <<>> THEN <<>>
    ELSE <<[denom  |-> SubSeq(s, LeadingDigits(s) + 1, Len(s)),
            amount |-> DecimalValue(SubSeq(s, 1, LeadingDigits(s)))]>>

\* position of the first character of s that is no hex digit (0 when there is none)
FirstInvalidByte(s) ==
    IF \E i \in 1..Len(s) : ~IsHexChar(s[i])
    THEN CHOOSE i \in 1..Len(s) : ~IsHexChar(s[i]) /\ \A j \in 1..(i - 1) : IsHexChar(s[j])
    ELSE 0

\* HexDecodeError without the check of the length
HexDecodeErrorAnyLength(s) ==
    IF FirstInvalidByte(s) # 0
    THEN <<[msg |-> "encoding/hex: invalid byte", arg |-> <<s[FirstInvalidByte(s)]>>]>>
    ELSE <<>>

\* the error of hex.DecodeString(s): an invalid byte is reported before an odd length
HexDecodeError(s) ==
    IF FirstInvalidByte(s) # 0
    THEN <<[msg |-> "encoding/hex: invalid byte", arg |-> <<s[FirstInvalidByte(s)]>>]>>
    ELSE IF Len(s) % 2 = 1
    THEN <<[msg |-> "encoding/hex: odd length hex string", arg |-> <<>>]>>
    ELSE <<>>

----------------------------------------------------------------------------
(* Errors *)

E(m) == <<[msg |-> m, arg |-> <<>>]>>

Wrap(e, m, a) == <<[msg |-> m, arg |-> a]>> \o e

\* the client's wrapping of a failed node request
rpcError(cause) == Wrap(E(cause), "error while requesting node", NodeAddress)

\* errTimeout as the bare context error
errTimeoutUnwrapped == E("context deadline exceeded")

errTimeout == Wrap(E("context deadline exceeded"), "timeout exceeded waiting for block", <<>>)

errBothFeesAndGasPrices == E("cannot provide both fees and gas prices")

\* causes the collaborators fail with
NodeErrors == {"oups"}
AccountErrors == {"nope"}
TxNotFound == "tx abcd not found"

\* IsNotFound taking every failure for a retryable one
IsNotFoundAnyError(cause) == cause # "ok"

\* the one tx-lookup failure WaitForTx retries on
IsNotFound(cause) == cause = TxNotFound

\* ensureExistsError with the node context added
ensureExistsErrorWrapped(cause) == rpcError(cause)

\* error of a failed account-existence check, as CreateTx hands it back
ensureExistsError(cause) == E(cause)

----------------------------------------------------------------------------
(* Client configuration and the values the collaborators answer with *)

EmptyString == <<>>
Auto == <<"a", "u", "t", "o">>
\* the gas option of a client built without WithGas: the default limit, as a literal
DefaultGas == <<"3", "0", "0", "0", "0", "0">>
Fees10Token == <<"1", "0">> \o defaultFaucetDenom
GasPrices3Token == <<"3">> \o defaultFaucetDenom

GasOptions == {DefaultGas, EmptyString, Auto, <<"7">>, <<"x">>, <<"7", "x">>}
FeesOptions == {EmptyString, Fees10Token}
GasPricesOptions == {EmptyString, GasPrices3Token}
GasAdjustmentOptions == {DefaultGasAdjustment, 2}

Configs ==
    [fees : FeesOptions, gasPrices : GasPricesOptions, gas : GasOptions,
     useFaucet : BOOLEAN, gasAdjustment : GasAdjustmentOptions]

\* cosmosclient.New with only the collaborators set
DefaultConfig ==
    [fees |-> EmptyString, gasPrices |-> EmptyString, gas |-> DefaultGas,
     useFaucet |-> FALSE, gasAdjustment |-> DefaultGasAdjustment]

\* balances the bank query client reports
BalanceReplies == {defaultFaucetMinAmount - 1, defaultFaucetMinAmount}
\* gas units the gasometer reports
GasEstimates == {0, 42}
\* account number and sequence the account retriever reports
AccountNumber == 1
AccountSequence == 2

\* a collaborator call: out is "ok" or the cause it failed with, val the number it
\* answered, late whether the caller's deadline was over when it was issued
Call(c, o, v) == [call |-> c, out |-> o, val |-> v, late |-> expired]

\* HasEnoughBalance with a strict comparison
HasEnoughBalanceStrict(b) == b > defaultFaucetMinAmount

\* the balance clears the faucet's minimum
HasEnoughBalance(b) == b >= defaultFaucetMinAmount

Count(c) == Cardinality({i \in 1..Len(calls) : calls[i].call = c})

NoResult == [kind |-> "none"]

----------------------------------------------------------------------------
(* Transaction factory *)

\* newFactory with the chain id left out
newFactoryNoChainID(id, c) ==
    [chainID |-> "", gas |-> DefaultGasLimit, gasAdjustment |-> c.gasAdjustment,
     accountNumber |-> 0, sequence |-> 0, fees |-> <<>>]

\* the factory construction builds from the chain id and the options
newFactory(id, c) ==
    [chainID |-> id, gas |-> DefaultGasLimit, gasAdjustment |-> c.gasAdjustment,
     accountNumber |-> 0, sequence |-> 0, fees |-> <<>>]

\* Client.TxFactory, built at construction
TxFactory == newFactory(ChainID, cfg)

\* the client a successful construction returns
Constructed(id, c) == [chainID |-> id, TxFactory |-> newFactory(id, c)]

NoClient == [chainID |-> "", TxFactory |-> [chainID |-> ""]]

NoQuery == [kind |-> "none"]

NoCall == [op |-> "none"]

\* the collaborator calls a polling call may issue in the model
CallBudget == IF parked = NoCall THEN MaxCalls ELSE MaxPairCalls

CosmosPrefix == <<"c", "o", "s", "m", "o", "s">>

\* a constructed client at rest: nothing resolved, no query built, no second call
AtRest ==
    /\ client = Constructed(ChainID, cfg)
    /\ network = ChainID
    /\ prefix = CosmosPrefix
    /\ keyring = {}
    /\ lookups = <<>>
    /\ q = NoQuery
    /\ qops = <<>>
    /\ heap = <<>>
    /\ derived = <<>>
    /\ parked = NoCall

\* HasConflict with "or" in place of "and"
HasConflictEither(c) == c.fees # EmptyString \/ c.gasPrices # EmptyString

\* fees and gas prices are mutually exclusive
HasConflict(c) == c.fees # EmptyString /\ c.gasPrices # EmptyString

\* the gas option asks for simulation
WantsEstimate(g) == g = EmptyString \/ g = Auto

\* LiteralGas reading whatever digits the option starts with
LiteralGasLeadingDigits(g) == DecimalValue(SubSeq(g, 1, LeadingDigits(g)))

\* a literal gas option, the default limit standing in for one that does not parse
LiteralGas(g) == IF ParseUintOk(g) THEN DecimalValue(g) ELSE DefaultGasLimit

\* EstimatedGas without the margin added to the simulated units
EstimatedGasNoMargin(units) == units

\* the limit set from the gasometer's answer
EstimatedGas(units) == units + SimulatedGasMargin

\* TimesGas with the default limit in place of the limit handed in
TimesGasDefault(prices, gas) ==
    IF prices = <<>> THEN <<>>
    ELSE <<[denom |-> prices[1].denom, amount |-> prices[1].amount * DefaultGasLimit]>>

RECURSIVE TimesGas(_, _)
TimesGas(prices, gas) ==
    IF prices = <<>> THEN <<>>
    ELSE <<[denom |-> prices[1].denom, amount |-> prices[1].amount * gas]>>
         \o TimesGas(Tail(prices), gas)

\* fee of the transaction once the gas limit is final
FeeAmount(c, gas) ==
    IF c.fees # EmptyString THEN ParseCoins(c.fees)
    ELSE IF c.gasPrices # EmptyString THEN TimesGas(ParseCoins(c.gasPrices), gas)
    ELSE <<>>

WithGasAndFees(f, gas) == [f EXCEPT !.gas = gas, !.fees = FeeAmount(cfg, gas)]

\* UnsignedTx with a signature attached
UnsignedTxSigned(f) ==
    [kind |-> "tx", messages |-> <<"MsgSend">>,
     feeAmount |-> f.fees, gasLimit |-> f.gas,
     accountNumber |-> f.accountNumber, sequence |-> f.sequence,
     signerInfos |-> <<"bob">>, signatures |-> <<"sig">>]

\* the transaction CreateTx returns
UnsignedTx(f) ==
    [kind |-> "tx", messages |-> <<"MsgSend">>,
     feeAmount |-> f.fees, gasLimit |-> f.gas,
     accountNumber |-> f.accountNumber, sequence |-> f.sequence,
     signerInfos |-> <<>>, signatures |-> <<>>]

----------------------------------------------------------------------------
(* CreateTx *)

\* the address of the key bytes under a prefix
Bech32Encode(pfx, key) == pfx \o <<"1">> \o key

NoAccount == [name |-> <<>>, key |-> <<>>]

Bob == [name |-> <<"b", "o", "b">>, key |-> <<"a", "b", "c">>]
\* an account no registry holds
Alice == [name |-> <<"a", "l", "i", "c", "e">>, key |-> <<"x", "y", "z">>]
\* an account whose name reads as the address of another one
Shadow == [name |-> Bech32Encode(CosmosPrefix, Bob.key), key |-> <<"s", "s", "s">>]
\* the accounts that get imported
Accounts == {Bob, Shadow}

\* AccountRegistry.Import: the registry of the client takes in an account under a
\* name it does not hold yet; no call of the client is in progress
Import ==
    /\ pc = "idle"
    /\ \E a \in Accounts :
          /\ \A b \in keyring : b.name # a.name
          /\ keyring' = keyring \cup {a}
    /\ UNCHANGED <<cfg, op, pc, calls, txf, res, err, height, hasDeadline, expired, target, hash,
                   clientVars, queryVars, parked, prefix, lookups>>

Return(r, e) ==
    /\ pc' = "done"
    /\ res' = r
    /\ err' = e

\* CreateTx entering the funding gate whether or not a faucet is configured
CreateTxAlwaysFunds ==
    /\ pc = "idle"
    /\ op' = "CreateTx"
    /\ txf' = client.TxFactory
    /\ pc' = "checkBalance"
    /\ UNCHANGED <<clientVars, accountVars, queryVars, parked, cfg, calls, res, err, height,
                   hasDeadline, expired, target, hash>>

CreateTx ==
    /\ pc = "idle"
    /\ op' = "CreateTx"
    /\ txf' = client.TxFactory
    /\ pc' = IF cfg.useFaucet THEN "checkBalance" ELSE "ensureExists"
    /\ UNCHANGED <<clientVars, accountVars, queryVars, parked, cfg, calls, res, err, height, hasDeadline, expired, target, hash>>

\* funding gate: the first balance query
CheckAccountBalance ==
    /\ pc = "checkBalance"
    /\ \/ \E b \in BalanceReplies :
            /\ calls' = Append(calls, Call("Balance", "ok", b))
            /\ pc' = IF HasEnoughBalance(b) THEN "ensureExists" ELSE "transfer"
            /\ UNCHANGED <<res, err>>
       \/ \E cause \in NodeErrors :
            /\ calls' = Append(calls, Call("Balance", cause, 0))
            /\ Return(NoResult, rpcError(cause))
    /\ UNCHANGED <<clientVars, accountVars, queryVars, parked, cfg, op, txf, height, hasDeadline, expired, target, hash>>

\* FaucetTransfer going on to the balance query whether or not the request failed
FaucetTransferBestEffort ==
    /\ pc = "transfer"
    /\ \E out \in {"ok"} \cup NodeErrors : calls' = Append(calls, Call("Transfer", out, 0))
    /\ pc' = "recheckBalance"
    /\ UNCHANGED <<res, err>>
    /\ UNCHANGED <<clientVars, accountVars, queryVars, parked, cfg, op, txf, height, hasDeadline, expired, target, hash>>

\* funding gate: the request to the funding service
FaucetTransfer ==
    /\ pc = "transfer"
    /\ \/ /\ calls' = Append(calls, Call("Transfer", "ok", 0))
          /\ pc' = "recheckBalance"
          /\ UNCHANGED <<res, err>>
       \/ \E cause \in NodeErrors :
            /\ calls' = Append(calls, Call("Transfer", cause, 0))
            /\ Return(NoResult, Wrap(E(cause), "cannot retrieve funds from faucet", <<>>))
    /\ UNCHANGED <<clientVars, accountVars, queryVars, parked, cfg, op, txf, height, hasDeadline, expired, target, hash>>

\* funding gate: the balance query after the transfer
RecheckAccountBalance ==
    /\ pc = "recheckBalance"
    /\ \/ \E b \in BalanceReplies :
            /\ calls' = Append(calls, Call("Balance", "ok", b))
            /\ pc' = "ensureExists"
            /\ UNCHANGED <<res, err>>
       \/ \E cause \in NodeErrors :
            /\ calls' = Append(calls, Call("Balance", cause, 0))
            /\ Return(NoResult, rpcError(cause))
    /\ UNCHANGED <<clientVars, accountVars, queryVars, parked, cfg, op, txf, height, hasDeadline, expired, target, hash>>

\* factory preparer: the account-existence check
EnsureExists ==
    /\ pc = "ensureExists"
    /\ \/ /\ calls' = Append(calls, Call("EnsureExists", "ok", 0))
          /\ pc' = "getAccountNumberSequence"
          /\ UNCHANGED <<res, err>>
       \/ \E cause \in AccountErrors :
            /\ calls' = Append(calls, Call("EnsureExists", cause, 0))
            /\ Return(NoResult, ensureExistsError(cause))
    /\ UNCHANGED <<clientVars, accountVars, queryVars, parked, cfg, op, txf, height, hasDeadline, expired, target, hash>>

\* factory preparer: account number and sequence
GetAccountNumberSequence ==
    /\ pc = "getAccountNumberSequence"
    /\ \/ /\ calls' = Append(calls, Call("GetAccountNumberSequence", "ok", 0))
          /\ txf' = [txf EXCEPT !.accountNumber = AccountNumber, !.sequence = AccountSequence]
          /\ pc' = "gasPolicy"
          /\ UNCHANGED <<res, err>>
       \/ \E cause \in AccountErrors :
            /\ calls' = Append(calls, Call("GetAccountNumberSequence", cause, 0))
            /\ Return(NoResult, E(cause))
            /\ UNCHANGED txf
    /\ UNCHANGED <<clientVars, accountVars, queryVars, parked, cfg, op, height, hasDeadline, expired, target, hash>>

\* gas policy resolver: conflict check and choice of the gas limit
ResolveGasPolicy ==
    /\ pc = "gasPolicy"
    /\ IF HasConflict(cfg)
         THEN Return(NoResult, errBothFeesAndGasPrices) /\ UNCHANGED txf
       ELSE IF WantsEstimate(cfg.gas)
         THEN pc' = "calculateGas" /\ UNCHANGED <<txf, res, err>>
       ELSE /\ txf' = WithGasAndFees(txf, LiteralGas(cfg.gas))
            /\ pc' = "build"
            /\ UNCHANGED <<res, err>>
    /\ UNCHANGED <<clientVars, accountVars, queryVars, parked, cfg, op, calls, height, hasDeadline, expired, target, hash>>

\* gas policy resolver: simulation through the gasometer
CalculateGas ==
    /\ pc = "calculateGas"
    /\ \/ \E units \in GasEstimates :
            /\ calls' = Append(calls, Call("CalculateGas", "ok", units))
            /\ txf' = WithGasAndFees(txf, EstimatedGas(units))
            /\ pc' = "build"
            /\ UNCHANGED <<res, err>>
       \/ \E cause \in NodeErrors :
            /\ calls' = Append(calls, Call("CalculateGas", cause, 0))
            /\ Return(NoResult, E(cause))
            /\ UNCHANGED txf
    /\ UNCHANGED <<clientVars, accountVars, queryVars, parked, cfg, op, height, hasDeadline, expired, target, hash>>

\* transaction builder: the transaction handed back to the caller
BuildUnsignedTx ==
    /\ pc = "build"
    /\ Return(UnsignedTx(txf), <<>>)
    /\ UNCHANGED <<clientVars, accountVars, queryVars, parked, cfg, op, calls, txf, height, hasDeadline, expired, target, hash>>

NextCreateTx ==
    \/ Import
    \/ CreateTx
    \/ CheckAccountBalance
    \/ FaucetTransfer
    \/ RecheckAccountBalance
    \/ EnsureExists
    \/ GetAccountNumberSequence
    \/ ResolveGasPolicy
    \/ CalculateGas
    \/ BuildUnsignedTx

InitCreateTx ==
    /\ cfg \in Configs
    /\ op = "none"
    /\ pc = "idle"
    /\ calls = <<>>
    /\ txf = TxFactory
    /\ res = NoResult
    /\ err = <<>>
    /\ height = 0
    /\ hasDeadline = FALSE
    /\ expired = FALSE
    /\ target = 0
    /\ hash = <<>>
    /\ AtRest

SpecCreateTx == InitCreateTx /\ [][NextCreateTx]_vars

----------------------------------------------------------------------------
(* WaitForBlockHeight and WaitForTx *)

Hashes == {<<"a", "b", "c", "d">>, <<"z", "z", "z">>, <<"a", "b", "c">>, <<"a", "g">>}

\* Reached one block early
ReachedOneEarly(h, t) == h + 1 >= t

\* Reached only past the target
ReachedStrict(h, t) == h > t

\* the height a status query reports satisfies the wait
Reached(h, t) == h >= t

\* the context the caller hands in: without deadline, or with one that may already be over
WithContext ==
    /\ hasDeadline' \in BOOLEAN
    /\ expired' \in (IF hasDeadline' THEN BOOLEAN ELSE {FALSE})

WaitForBlockHeight ==
    /\ pc = "idle"
    /\ op' = "WaitForBlockHeight"
    /\ target' \in 0..(MaxHeight + 1)
    /\ WithContext
    /\ pc' = "status"
    /\ UNCHANGED <<clientVars, accountVars, queryVars, parked, cfg, calls, txf, res, err, height, hash>>

\* QueryStatus taking a failed query for a height not yet reached
QueryStatusRetryOnError ==
    /\ pc = "status"
    /\ Len(calls) < CallBudget
    /\ \/ /\ calls' = Append(calls, Call("Status", "ok", height))
          /\ IF ~Reached(height, target)
               THEN pc' = "sleep" /\ UNCHANGED <<res, err>>
             ELSE IF op = "WaitForTx"
               THEN pc' = "tx" /\ UNCHANGED <<res, err>>
             ELSE Return(NoResult, <<>>)
       \/ \E cause \in NodeErrors :
            /\ calls' = Append(calls, Call("Status", cause, 0))
            /\ pc' = "sleep"
            /\ UNCHANGED <<res, err>>
    /\ UNCHANGED <<clientVars, accountVars, queryVars, parked, cfg, op, txf, height,
                   hasDeadline, expired, target, hash>>

\* one round of the height poll: query the node, compare, return or go to sleep
QueryStatus ==
    /\ pc = "status"
    /\ Len(calls) < CallBudget
    /\ \/ /\ calls' = Append(calls, Call("Status", "ok", height))
          /\ IF ~Reached(height, target)
               THEN pc' = "sleep" /\ UNCHANGED <<res, err>>
             ELSE IF op = "WaitForTx"
               THEN pc' = "tx" /\ UNCHANGED <<res, err>>
             ELSE Return(NoResult, <<>>)
       \/ \E cause \in NodeErrors :
            /\ calls' = Append(calls, Call("Status", cause, 0))
            /\ Return(NoResult, rpcError(cause))
    /\ UNCHANGED <<clientVars, accountVars, queryVars, parked, cfg, op, txf, height, hasDeadline, expired, target, hash>>

\* the sleep between two rounds ends with the tick
Tick ==
    /\ pc = "sleep"
    /\ ~expired
    /\ pc' = "status"
    /\ UNCHANGED <<clientVars, accountVars, queryVars, parked, cfg, op, calls, txf, res, err, height, hasDeadline, expired, target, hash>>

\* the sleep between two rounds is cut short by the context
\* TimeoutExceeded asking the node once more before it gives up
TimeoutExceededAfterAnotherQuery ==
    /\ pc = "sleep"
    /\ expired
    /\ calls' = Append(calls, Call("Status", "ok", height))
    /\ Return(NoResult, errTimeout)
    /\ UNCHANGED <<clientVars, accountVars, queryVars, parked, cfg, op, txf, height, hasDeadline, expired, target, hash>>

TimeoutExceeded ==
    /\ pc = "sleep"
    /\ expired
    /\ Return(NoResult, errTimeout)
    /\ UNCHANGED <<clientVars, accountVars, queryVars, parked, cfg, op, calls, txf, height, hasDeadline, expired, target, hash>>

WaitForTx ==
    /\ pc = "idle"
    /\ op' = "WaitForTx"
    /\ hash' \in Hashes
    /\ WithContext
    /\ IF HexDecodeError(hash') # <<>>
         THEN Return(NoResult, Wrap(HexDecodeError(hash'), "unable to decode tx hash", hash'))
       ELSE pc' = "tx" /\ UNCHANGED <<res, err>>
    /\ UNCHANGED <<clientVars, accountVars, queryVars, parked, cfg, calls, txf, height, target>>

\* Checking: look the transaction up by hash. The lookup is modelled without a check
\* of the context before it, as the status query of WaitForBlockHeight is tested to
\* be; no test gives WaitForTx a context with a deadline.
GetTx ==
    /\ pc = "tx"
    /\ Len(calls) < CallBudget
    /\ \/ /\ calls' = Append(calls, Call("Tx", "ok", 0))
          /\ Return([kind |-> "resultTx", hash |-> hash], <<>>)
       \/ \E cause \in NodeErrors \cup {TxNotFound} :
            /\ calls' = Append(calls, Call("Tx", cause, 0))
            /\ IF IsNotFound(cause)
                 THEN pc' = "latestBlockHeight" /\ UNCHANGED <<res, err>>
               ELSE Return(NoResult, Wrap(rpcError(cause), "fetching tx", hash))
    /\ UNCHANGED <<clientVars, accountVars, queryVars, parked, cfg, op, txf, height, hasDeadline, expired, target, hash>>

\* WaitingNextBlock: read the current height, then wait for the one after it
LatestBlockHeight ==
    /\ pc = "latestBlockHeight"
    /\ Len(calls) < CallBudget
    /\ \/ /\ calls' = Append(calls, Call("Status", "ok", height))
          /\ target' = height + 1
          /\ pc' = "status"
          /\ UNCHANGED <<res, err>>
       \/ \E cause \in NodeErrors :
            /\ calls' = Append(calls, Call("Status", cause, 0))
            /\ Return(NoResult, rpcError(cause))
            /\ UNCHANGED target
    /\ UNCHANGED <<clientVars, accountVars, queryVars, parked, cfg, op, txf, height, hasDeadline, expired, hash>>

\* the node commits a block
NewBlock ==
    /\ pc \notin {"idle", "done"}
    /\ height < MaxHeight
    /\ height' = height + 1
    /\ UNCHANGED <<clientVars, accountVars, queryVars, parked, cfg, op, pc, calls, txf, res, err, hasDeadline, expired, target, hash>>

\* the deadline of the caller's context passes
DeadlineElapses ==
    /\ pc \notin {"idle", "done"}
    /\ hasDeadline
    /\ ~expired
    /\ expired' = TRUE
    /\ UNCHANGED <<clientVars, accountVars, queryVars, parked, cfg, op, pc, calls, txf, res, err, height, hasDeadline, target, hash>>

NextWait ==
    \/ WaitForBlockHeight
    \/ QueryStatus
    \/ Tick
    \/ TimeoutExceeded
    \/ WaitForTx
    \/ GetTx
    \/ LatestBlockHeight
    \/ NewBlock
    \/ DeadlineElapses

InitWait ==
    /\ cfg = DefaultConfig
    /\ op = "none"
    /\ pc = "idle"
    /\ calls = <<>>
    /\ txf = TxFactory
    /\ res = NoResult
    /\ err = <<>>
    /\ height \in 0..MaxHeight
    /\ hasDeadline = FALSE
    /\ expired = FALSE
    /\ target = 0
    /\ hash = <<>>
    /\ AtRest

SpecWait == InitWait /\ [][NextWait]_vars

----------------------------------------------------------------------------
(* Properties of CreateTx *)

CreateTxReturned == op = "CreateTx" /\ pc = "done"

CreateTxSucceeded == CreateTxReturned /\ err = <<>>

BothFeesAndGasPrices == cfg.fees # <<>> /\ cfg.gasPrices # <<>>

AllCallsOk == \A i \in 1..Len(calls) : calls[i].out = "ok"

Issued(c) == \E i \in 1..Len(calls) : calls[i].call = c

\* C1, as stated: with both fees and gas prices configured CreateTx fails with
\* "cannot provide both fees and gas prices" before any collaborator call is issued.
C1_ConflictBeforeAnyCall ==
    (CreateTxReturned /\ BothFeesAndGasPrices)
        => (err = E("cannot provide both fees and gas prices") /\ calls = <<>>)

\* C1, amended: with both fees and gas prices configured CreateTx never returns a
\* transaction; when every collaborator call before it succeeds the error is "cannot
\* provide both fees and gas prices"; that error is returned only with both options
\* set, and only after the account-existence check and the account number/sequence
\* fetch have been issued and have succeeded.
C1_ConflictAfterPrepare ==
    /\ (CreateTxReturned /\ BothFeesAndGasPrices)
          => /\ res = NoResult
             /\ err # <<>>
             /\ AllCallsOk => err = E("cannot provide both fees and gas prices")
    /\ (CreateTxReturned /\ err = E("cannot provide both fees and gas prices"))
          => /\ BothFeesAndGasPrices
             /\ Len(calls) >= 2
             /\ calls[Len(calls) - 1].call = "EnsureExists"
             /\ calls[Len(calls)].call = "GetAccountNumberSequence"
             /\ AllCallsOk

C1_Witness ==
    /\ CreateTxReturned
    /\ BothFeesAndGasPrices
    /\ err = E("cannot provide both fees and gas prices")
    /\ Issued("GetAccountNumberSequence")

\* C2, as stated: with gas "" or "auto" the gasometer is invoked exactly once and the
\* gas limit of the returned transaction is the reported units times the gas adjustment.
C2_LimitIsUnitsTimesAdjustment ==
    (CreateTxSucceeded /\ cfg.gas \in {<<>>, <<"a", "u", "t", "o">>})
        => /\ Count("CalculateGas") = 1
           /\ res.gasLimit = calls[Len(calls)].val * cfg.gasAdjustment

\* C2, amended: with gas "" or "auto" the gasometer is invoked exactly once, as the
\* last collaborator call, and the gas limit of the returned transaction is the
\* reported units plus 20000, whatever the gas adjustment.
C2_LimitIsUnitsPlusMargin ==
    (CreateTxSucceeded /\ cfg.gas \in {<<>>, <<"a", "u", "t", "o">>})
        => /\ Count("CalculateGas") = 1
           /\ calls[Len(calls)].call = "CalculateGas"
           /\ res.gasLimit = calls[Len(calls)].val + 20000

C2_Witness ==
    /\ CreateTxSucceeded
    /\ cfg.gas = <<>>
    /\ cfg.gasAdjustment = 2
    /\ calls[Len(calls)].call = "CalculateGas"
    /\ calls[Len(calls)].val = 42
    /\ res.gasLimit = 20042

\* C3, as stated: a successful CreateTx has invoked the signer and returns a
\* transaction that carries the account's signature.
C3_SignedOnReturn ==
    CreateTxSucceeded => (Issued("Sign") /\ res.signatures # <<>>)

\* C3, amended: a successful CreateTx returns the transaction assembled from the
\* resolved gas limit and fee, unsigned: the signer has not been invoked, and the
\* signer infos and the signatures of the returned transaction are empty.
C3_UnsignedOnReturn ==
    CreateTxSucceeded
        => /\ ~Issued("Sign")
           /\ res.kind = "tx"
           /\ res.signatures = <<>>
           /\ res.signerInfos = <<>>
           /\ res.gasLimit = txf.gas
           /\ res.feeAmount = txf.fees
           /\ Issued("GetAccountNumberSequence")

C3_Witness ==
    /\ CreateTxSucceeded
    /\ res.kind = "tx"
    /\ res.gasLimit = 300000
    /\ res.feeAmount = <<[denom |-> <<"t", "o", "k", "e", "n">>, amount |-> 10]>>

GatePassed == pc = "ensureExists" \/ Issued("EnsureExists")

\* C4: with a faucet configured, a first balance of at least the minimum means no
\* funding request and one balance query in all; a first balance below it means one
\* funding request and one re-query, after which the gate is passed without error
\* whatever the new balance is.
C4_FundingGateCalls ==
    (op = "CreateTx" /\ cfg.useFaucet /\ Len(calls) >= 1 /\ calls[1].out = "ok")
        => /\ calls[1].call = "Balance"
           /\ calls[1].val >= 100
                => (Count("Transfer") = 0 /\ Count("Balance") = 1 /\ GatePassed)
           /\ calls[1].val < 100
                => /\ Count("Transfer") <= 1
                   /\ Count("Balance") <= 2
                   /\ GatePassed => (Count("Transfer") = 1 /\ Count("Balance") = 2)
                   /\ (Len(calls) >= 3 /\ calls[3].out = "ok")
                        => /\ calls[2].call = "Transfer"
                           /\ calls[3].call = "Balance"
                           /\ GatePassed
                           /\ ~(pc = "done" /\ Len(calls) = 3)

C4_Witness ==
    /\ CreateTxSucceeded
    /\ cfg.useFaucet
    /\ calls[1].val = 99
    /\ calls[3].call = "Balance"
    /\ calls[3].val = 99

----------------------------------------------------------------------------
(* Properties of WaitForTx and WaitForBlockHeight *)

TxLookups == {i \in 1..Len(calls) : calls[i].call = "Tx"}

\* the tx lookup that follows lookup i
NextLookup(i) == CHOOSE j \in TxLookups : j > i /\ \A m \in TxLookups : m > i => j <= m

WaitForTxSucceeded == op = "WaitForTx" /\ pc = "done" /\ err = <<>>

\* C5: WaitForTx repeats a lookup only after "not found", and between a not-found
\* lookup and the next lookup lies exactly one wait: a status query that reads the
\* current height h, then status queries of which only the last reports at least
\* h + 1. A successful call after k not-found lookups has issued k + 1 lookups, and
\* with k = 0 no status query.
C5_OneWaitPerNotFound ==
    op = "WaitForTx" =>
        /\ \A i \in TxLookups :
              (\E j \in TxLookups : j > i) =>
                  /\ calls[i].out = "tx abcd not found"
                  /\ NextLookup(i) >= i + 3
                  /\ \A m \in (i + 1)..(NextLookup(i) - 1) :
                        calls[m].call = "Status" /\ calls[m].out = "ok"
                  /\ calls[NextLookup(i) - 1].val >= calls[i + 1].val + 1
                  /\ \A m \in (i + 2)..(NextLookup(i) - 2) :
                        calls[m].val < calls[i + 1].val + 1
        /\ WaitForTxSucceeded =>
              /\ calls[Len(calls)].call = "Tx"
              /\ calls[Len(calls)].out = "ok"
              /\ res = [kind |-> "resultTx", hash |-> hash]
              /\ Cardinality(TxLookups)
                    = Cardinality({i \in TxLookups : calls[i].out = "tx abcd not found"}) + 1
              /\ Cardinality(TxLookups) = 1 => Count("Status") = 0

C5_Witness ==
    /\ WaitForTxSucceeded
    /\ Cardinality(TxLookups) = 2
    /\ Count("Status") = 3

WaitingForHeight == op = "WaitForBlockHeight" /\ pc \in {"status", "sleep"}

WaitForBlockHeightReturned == op = "WaitForBlockHeight" /\ pc = "done"

LastReported(h) ==
    /\ Len(calls) >= 1
    /\ calls[Len(calls)].call = "Status"
    /\ calls[Len(calls)].out = "ok"
    /\ calls[Len(calls)].val = h

\* C6: WaitForBlockHeight returns nil exactly on a status query that reports a height
\* of at least the target (the first one, if the node is already there); while the
\* reported heights are below the target it keeps polling, and without a failed
\* query it returns only once the deadline has elapsed.
C6_SuccessExactlyWhenReached ==
    /\ WaitingForHeight
          => \A i \in 1..Len(calls) : calls[i].out = "ok" /\ calls[i].val < target
    /\ WaitForBlockHeightReturned
          => /\ err = <<>> <=> \E h \in 0..MaxHeight : h >= target /\ LastReported(h)
             /\ \A i \in 1..(Len(calls) - 1) : calls[i].out = "ok" /\ calls[i].val < target
             /\ (AllCallsOk /\ err # <<>>) => expired

C6_Witness ==
    /\ WaitForBlockHeightReturned
    /\ err = <<>>
    /\ Len(calls) = 3
    /\ calls[1].val < target
    /\ ~expired

\* C7, as stated: when the deadline elapses before any status query has reported a
\* height of at least the target, WaitForBlockHeight ends with the timeout error and
\* never with success.
C7_TimeoutWheneverDeadlineFirst ==
    ( /\ WaitForBlockHeightReturned
      /\ AllCallsOk
      /\ expired
      /\ \A i \in 1..Len(calls) : calls[i].val >= target => calls[i].late )
        => err = <<[msg |-> "timeout exceeded waiting for block", arg |-> <<>>],
                   [msg |-> "context deadline exceeded", arg |-> <<>>]>>

\* C7, amended: when the deadline has elapsed and the latest status query reported a
\* height below the target, WaitForBlockHeight ends with "timeout exceeded waiting for
\* block: context deadline exceeded", an error no failed status query produces; it is
\* returned in no other case, and a status query issued after the deadline that
\* reports at least the target still ends the call with success.
C7_TimeoutOnlyBelowTarget ==
    WaitForBlockHeightReturned =>
        /\ (\E h \in 0..MaxHeight : h < target /\ LastReported(h))
              <=> err = <<[msg |-> "timeout exceeded waiting for block", arg |-> <<>>],
                          [msg |-> "context deadline exceeded", arg |-> <<>>]>>
        /\ (\E h \in 0..MaxHeight : h < target /\ LastReported(h)) => expired
        /\ calls[Len(calls)].out # "ok"
              => err = <<[msg |-> "error while requesting node", arg |-> NodeAddress],
                         [msg |-> calls[Len(calls)].out, arg |-> <<>>]>>
        /\ (\E h \in 0..MaxHeight : h >= target /\ LastReported(h)) => err = <<>>

C7_Witness ==
    /\ WaitForBlockHeightReturned
    /\ expired
    /\ Len(calls) = 2
    /\ ~calls[1].late
    /\ err = <<[msg |-> "timeout exceeded waiting for block", arg |-> <<>>],
               [msg |-> "context deadline exceeded", arg |-> <<>>]>>

InvalidHex(h) ==
    \/ Len(h) % 2 = 1
    \/ \E i \in 1..Len(h) :
          h[i] \notin {"0", "1", "2", "3", "4", "5", "6", "7", "8", "9",
                       "a", "b", "c", "d", "e", "f", "A", "B", "C", "D", "E", "F"}

\* C8: given a hash that is not valid hexadecimal, WaitForTx has returned the error
\* "unable to decode tx hash '<hash>': <decode error>" without any tx lookup or
\* status query.
C8_InvalidHashNoCall ==
    (op = "WaitForTx" /\ InvalidHex(hash))
        => /\ pc = "done"
           /\ calls = <<>>
           /\ res = NoResult
           /\ Len(err) = 2
           /\ err[1] = [msg |-> "unable to decode tx hash", arg |-> hash]
           /\ err[2].msg \in {"encoding/hex: invalid byte", "encoding/hex: odd length hex string"}

C8_Witness ==
    /\ op = "WaitForTx"
    /\ hash = <<"z", "z", "z">>
    /\ pc = "done"
    /\ err = <<[msg |-> "unable to decode tx hash", arg |-> hash],
               [msg |-> "encoding/hex: invalid byte", arg |-> <<"z">>]>>

\* C9: in WaitForTx a failed tx lookup whose cause is not "not found" is the last
\* collaborator call; the call has returned "fetching tx '<hash>': error while
\* requesting node '<endpoint>': <cause>".
C9_OtherLookupErrorIsTerminal ==
    op = "WaitForTx" =>
        \A i \in TxLookups :
            calls[i].out \notin {"ok", "tx abcd not found"}
                => /\ i = Len(calls)
                   /\ pc = "done"
                   /\ res = NoResult
                   /\ err = <<[msg |-> "fetching tx", arg |-> hash],
                              [msg |-> "error while requesting node",
                               arg |-> <<"http://localhost:26657">>],
                              [msg |-> calls[i].out, arg |-> <<>>]>>

C9_Witness ==
    /\ op = "WaitForTx"
    /\ pc = "done"
    /\ Cardinality(TxLookups) = 2
    /\ calls[Len(calls)].call = "Tx"
    /\ calls[Len(calls)].out = "oups"

\* C10: when the account-existence check fails, CreateTx has returned the cause
\* itself, without wrapping, and the check is the last collaborator call: no account
\* number/sequence fetch, no gas estimation, no signing.
C10_EnsureExistsErrorVerbatim ==
    op = "CreateTx" =>
        \A i \in 1..Len(calls) :
            (calls[i].call = "EnsureExists" /\ calls[i].out # "ok")
                => /\ i = Len(calls)
                   /\ pc = "done"
                   /\ res = NoResult
                   /\ err = <<[msg |-> calls[i].out, arg |-> <<>>]>>
                   /\ ~Issued("GetAccountNumberSequence")
                   /\ ~Issued("CalculateGas")
                   /\ ~Issued("Sign")

C10_Witness ==
    /\ CreateTxReturned
    /\ cfg.useFaucet
    /\ Len(calls) = 4
    /\ calls[4].call = "EnsureExists"
    /\ err = <<[msg |-> "nope", arg |-> <<>>]>>

----------------------------------------------------------------------------
(* Properties of CreateTx: fee from gas prices, order of the steps *)

\* C12: with gas prices and no fees configured, the fee of the returned transaction
\* is, per denom, the gas price times the gas limit of that transaction; when the
\* limit comes from the gasometer, that is the limit set from its answer.
C12_FeeFromFinalGasLimit ==
    (CreateTxSucceeded /\ cfg.fees = <<>> /\ cfg.gasPrices = <<"3", "t", "o", "k", "e", "n">>)
        => /\ res.feeAmount
                = <<[denom |-> <<"t", "o", "k", "e", "n">>, amount |-> 3 * res.gasLimit]>>
           /\ cfg.gas \in {<<>>, <<"a", "u", "t", "o">>}
                => /\ calls[Len(calls)].call = "CalculateGas"
                   /\ res.gasLimit = calls[Len(calls)].val + 20000
           /\ cfg.gas = <<"3", "0", "0", "0", "0", "0">> => res.gasLimit = 300000

C12_Witness ==
    /\ CreateTxSucceeded
    /\ cfg.fees = <<>>
    /\ cfg.gas = <<"a", "u", "t", "o">>
    /\ calls[Len(calls)].val = 42
    /\ res.feeAmount = <<[denom |-> <<"t", "o", "k", "e", "n">>, amount |-> 60126]>>

\* place of a collaborator call in the order of CreateTx
StepRank(c) ==
    CASE c \in {"Balance", "Transfer"} -> 1
      [] c = "EnsureExists" -> 2
      [] c = "GetAccountNumberSequence" -> 3
      [] c = "CalculateGas" -> 4
      [] OTHER -> 5

\* C13: the collaborator calls of CreateTx come in the order funding gate,
\* account-existence check, account number/sequence fetch, gas estimation, and the
\* transaction is built last; the funding gate comes first exactly when a faucet is
\* configured, and without one no balance query and no funding request is issued.
C13_StepOrder ==
    op = "CreateTx" =>
        /\ \A i, j \in 1..Len(calls) :
              i < j => /\ StepRank(calls[i].call) <= StepRank(calls[j].call)
                       /\ StepRank(calls[i].call) > 1
                            => StepRank(calls[i].call) < StepRank(calls[j].call)
        /\ ~cfg.useFaucet => (~Issued("Balance") /\ ~Issued("Transfer"))
        /\ (cfg.useFaucet /\ Len(calls) >= 1) => calls[1].call = "Balance"
        /\ Issued("GetAccountNumberSequence") => Issued("EnsureExists")
        /\ (Issued("CalculateGas") \/ pc \in {"gasPolicy", "calculateGas", "build"})
              => Issued("GetAccountNumberSequence")
        /\ res # NoResult
              => (pc = "done" /\ err = <<>> /\ Issued("GetAccountNumberSequence"))

C13_Witness ==
    /\ CreateTxSucceeded
    /\ cfg.useFaucet
    /\ Len(calls) = 6
    /\ calls[2].call = "Transfer"
    /\ calls[6].call = "CalculateGas"

----------------------------------------------------------------------------
(* Properties of the poll loops: failed status queries *)

\* C20: in WaitForBlockHeight a failed status query is the last collaborator call:
\* the call has returned its error, "error while requesting node '<endpoint>':
\* <cause>", and not the timeout error.
C20_StatusErrorIsTerminal ==
    op = "WaitForBlockHeight" =>
        \A i \in 1..Len(calls) :
            calls[i].out # "ok"
                => /\ i = Len(calls)
                   /\ pc = "done"
                   /\ err = <<[msg |-> "error while requesting node",
                               arg |-> <<"http://localhost:26657">>],
                              [msg |-> calls[i].out, arg |-> <<>>]>>

C20_Witness ==
    /\ WaitForBlockHeightReturned
    /\ Len(calls) = 3
    /\ calls[3].out = "oups"
    /\ ~expired

----------------------------------------------------------------------------
(* query.Query and its builder *)

\* builder calls applied to one query
MaxOps == 3

DefaultPageSize == 30
SortOrderAsc == "asc"
SortOrderDesc == "desc"

\* values handed to the uint32 parameters: zero, small ones and a large one
Uint32Inputs == {0, 1, 2, 2147483647}
Entities == {1}
FieldLists == {<<>>, <<1>>, <<1, 2>>}
FilterLists == {<<>>, <<"f1">>, <<"f1", "f2">>}
CallNames == {"fn"}

\* a slice: the backing array it points into (0 for none) and its length; its
\* capacity is the length of that array
NilSlice == [arr |-> 0, len |-> 0]

Cap(h, s) == IF s.arr = 0 THEN 0 ELSE Len(h[s.arr])

\* the elements seen through a slice
Elems(h, s) == IF s.arr = 0 THEN <<>> ELSE SubSeq(h[s.arr], 1, s.len)

\* capacity of the array append allocates when the old one is too small (below
\* 256 elements the runtime doubles, or takes the needed length if that is more)
GrowCap(oldCap, newLen) == IF newLen > 2 * oldCap THEN newLen ELSE 2 * oldCap

\* the built-in append: writes behind the slice's length into its own array when
\* the capacity allows, and copies into a fresh array otherwise
append(h, s, xs, zero) ==
    IF xs = <<>> THEN [slice |-> s, heap |-> h]
    ELSE IF s.len + Len(xs) <= Cap(h, s)
    THEN [slice |-> [arr |-> s.arr, len |-> s.len + Len(xs)],
          heap  |-> [h EXCEPT ![s.arr] =
                        [i \in 1..Len(h[s.arr]) |->
                            IF i > s.len /\ i <= s.len + Len(xs)
                            THEN xs[i - s.len] ELSE h[s.arr][i]]]]
    ELSE [slice |-> [arr |-> Len(h) + 1, len |-> s.len + Len(xs)],
          heap  |-> Append(h,
                        [i \in 1..GrowCap(Cap(h, s), s.len + Len(xs)) |->
                            IF i <= s.len THEN h[s.arr][i]
                            ELSE IF i <= s.len + Len(xs) THEN xs[i - s.len]
                            ELSE zero])]

New(e, f) ==
    [kind |-> "query", entity |-> e, fields |-> f, sortBy |-> NilSlice,
     pageSize |-> DefaultPageSize, atPage |-> 1, call |-> "", filters |-> NilSlice]

NewCall(c) ==
    [kind |-> "query", entity |-> 0, fields |-> <<>>, sortBy |-> NilSlice,
     pageSize |-> DefaultPageSize, atPage |-> 1, call |-> c, filters |-> NilSlice]

GetSortBy(h, qq) == Elems(h, qq.sortBy)

GetFilters(h, qq) == Elems(h, qq.filters)

GetPageSize(qq) == qq.pageSize

GetAtPage(qq) == qq.atPage

IsPagingEnabled(qq) == qq.pageSize > 0

IsCall(qq) == qq.call # ""

\* AtPage without the first page standing in for page zero
AtPageNoDefault(qq, page) == [qq EXCEPT !.atPage = page]

AtPage(qq, page) ==
    IF page = 0 THEN [qq EXCEPT !.atPage = 1]
    ELSE [qq EXCEPT !.atPage = page]

\* WithPageSize without the default standing in for size zero
WithPageSizeNoDefault(qq, size) == [qq EXCEPT !.pageSize = size]

WithPageSize(qq, size) ==
    IF size = 0 THEN [qq EXCEPT !.pageSize = DefaultPageSize]
    ELSE [qq EXCEPT !.pageSize = size]

WithoutPaging(qq) == [qq EXCEPT !.pageSize = 0]

\* the query returned, and the memory as the call leaves it
RECURSIVE AppendSortBy(_, _, _, _)
AppendSortBy(h, qq, order, fields) ==
    IF fields = <<>> THEN [q |-> qq, heap |-> h]
    ELSE LET r == append(h, qq.sortBy, <<[Field |-> fields[1], Order |-> order]>>,
                         [Field |-> 0, Order |-> ""])
         IN AppendSortBy(r.heap, [qq EXCEPT !.sortBy = r.slice], order, Tail(fields))

AppendFilters(h, qq, f) ==
    LET r == append(h, qq.filters, f, "")
    IN [q |-> [qq EXCEPT !.filters = r.slice], heap |-> r.heap]

\* everything but the query is left alone
QueryFrame ==
    UNCHANGED <<cfg, op, pc, calls, txf, res, err, height, hasDeadline, expired, target, hash,
                clientVars, accountVars, parked>>

Applied(o, a) == qops' = Append(qops, [op |-> o, arg |-> a])

Query_New ==
    /\ q = NoQuery
    /\ \E e \in Entities, f \in FieldLists : q' = New(e, f)
    /\ UNCHANGED <<qops, heap, derived>>
    /\ QueryFrame

Query_NewCall ==
    /\ q = NoQuery
    /\ \E c \in CallNames : q' = NewCall(c)
    /\ UNCHANGED <<qops, heap, derived>>
    /\ QueryFrame

Query_AtPage ==
    /\ q # NoQuery
    /\ Len(qops) < MaxOps
    /\ \E page \in Uint32Inputs : q' = AtPage(q, page) /\ Applied("AtPage", page)
    /\ UNCHANGED <<heap, derived>>
    /\ QueryFrame

Query_WithPageSize ==
    /\ q # NoQuery
    /\ Len(qops) < MaxOps
    /\ \E size \in Uint32Inputs : q' = WithPageSize(q, size) /\ Applied("WithPageSize", size)
    /\ UNCHANGED <<heap, derived>>
    /\ QueryFrame

Query_WithoutPaging ==
    /\ q # NoQuery
    /\ Len(qops) < MaxOps
    /\ q' = WithoutPaging(q)
    /\ Applied("WithoutPaging", 0)
    /\ UNCHANGED <<heap, derived>>
    /\ QueryFrame

Query_AppendSortBy ==
    /\ q # NoQuery
    /\ Len(qops) < MaxOps
    /\ \E order \in {SortOrderAsc, SortOrderDesc}, f \in FieldLists :
          /\ q' = AppendSortBy(heap, q, order, f).q
          /\ heap' = AppendSortBy(heap, q, order, f).heap
          /\ Applied("AppendSortBy", Len(f))
    /\ UNCHANGED derived
    /\ QueryFrame

Query_AppendFilters ==
    /\ q # NoQuery
    /\ Len(qops) < MaxOps
    /\ \E f \in FilterLists :
          /\ q' = AppendFilters(heap, q, f).q
          /\ heap' = AppendFilters(heap, q, f).heap
          /\ Applied("AppendFilters", Len(f))
    /\ UNCHANGED derived
    /\ QueryFrame

NextQuery ==
    \/ Query_New
    \/ Query_NewCall
    \/ Query_AtPage
    \/ Query_WithPageSize
    \/ Query_WithoutPaging
    \/ Query_AppendSortBy
    \/ Query_AppendFilters

InitQuery ==
    /\ cfg = DefaultConfig
    /\ op = "none"
    /\ pc = "idle"
    /\ calls = <<>>
    /\ txf = TxFactory
    /\ res = NoResult
    /\ err = <<>>
    /\ height = 0
    /\ hasDeadline = FALSE
    /\ expired = FALSE
    /\ target = 0
    /\ hash = <<>>
    /\ AtRest

SpecQuery == InitQuery /\ [][NextQuery]_vars

----------------------------------------------------------------------------
(* Properties of the query builder *)

\* the builder calls among names applied to q, by position
OpsNamed(names) == {i \in 1..Len(qops) : qops[i].op \in names}

LastOp(names) == CHOOSE i \in OpsNamed(names) : \A j \in OpsNamed(names) : j <= i

\* C17: the page of a query is at least 1: it is 1 when AtPage was never applied or
\* was last applied with page 0, and p when last applied with p > 0.
C17_AtPageAtLeastOne ==
    q # NoQuery =>
        /\ GetAtPage(q) >= 1
        /\ OpsNamed({"AtPage"}) = {} => q.atPage = 1
        /\ OpsNamed({"AtPage"}) # {} =>
              /\ qops[LastOp({"AtPage"})].arg = 0 => q.atPage = 1
              /\ qops[LastOp({"AtPage"})].arg > 0 => q.atPage = qops[LastOp({"AtPage"})].arg

C17_Witness ==
    /\ q # NoQuery
    /\ Len(qops) = 3
    /\ qops[1] = [op |-> "AtPage", arg |-> 2]
    /\ qops[3] = [op |-> "AtPage", arg |-> 0]
    /\ q.atPage = 1

\* C18: a new query has page size 30; WithPageSize(0) sets 30 and WithPageSize(n),
\* n > 0, sets n; paging is disabled exactly when the latest of the WithPageSize and
\* WithoutPaging calls applied to the query is WithoutPaging.
C18_PagingDisabledOnlyByWithoutPaging ==
    q # NoQuery =>
        /\ OpsNamed({"WithPageSize", "WithoutPaging"}) = {}
              => (q.pageSize = 30 /\ q.pageSize > 0)
        /\ OpsNamed({"WithPageSize", "WithoutPaging"}) # {} =>
              LET last == qops[LastOp({"WithPageSize", "WithoutPaging"})] IN
                /\ (last.op = "WithPageSize" /\ last.arg = 0) => q.pageSize = 30
                /\ (last.op = "WithPageSize" /\ last.arg > 0) => q.pageSize = last.arg
                /\ ~(q.pageSize > 0) <=> last.op = "WithoutPaging"
        /\ IsPagingEnabled(q) <=> q.pageSize > 0

C18_Witness ==
    /\ q # NoQuery
    /\ Len(qops) = 2
    /\ qops[1].op = "WithoutPaging"
    /\ qops[2] = [op |-> "WithPageSize", arg |-> 0]
    /\ q.pageSize = 30

----------------------------------------------------------------------------
(* cosmosclient.New *)

\* network names the node may report
Networks == {"mychain", "gitshock", "testnet"}

\* New asks the node for its status once and keeps the reported network as chain id
NewClient ==
    /\ pc = "new"
    /\ op' = "New"
    /\ pc' = "done"
    /\ \E out \in {"ok"} \cup NodeErrors :
          /\ calls' = Append(calls, Call("Status", out, height))
          /\ IF out = "ok"
             THEN client' = Constructed(network, cfg) /\ err' = <<>>
             ELSE client' = NoClient /\ err' = E(out)
    /\ UNCHANGED <<network, accountVars, queryVars, parked, cfg, txf, res, height, hasDeadline,
                   expired, target, hash>>

NextNew == NewClient

InitNew ==
    /\ cfg \in Configs
    /\ network \in Networks
    /\ height \in 0..MaxHeight
    /\ client = NoClient
    /\ op = "none"
    /\ pc = "new"
    /\ calls = <<>>
    /\ txf = TxFactory
    /\ res = NoResult
    /\ err = <<>>
    /\ hasDeadline = FALSE
    /\ expired = FALSE
    /\ target = 0
    /\ hash = <<>>
    /\ prefix = CosmosPrefix
    /\ keyring = {}
    /\ lookups = <<>>
    /\ q = NoQuery
    /\ qops = <<>>
    /\ heap = <<>>
    /\ derived = <<>>
    /\ parked = NoCall

SpecNew == InitNew /\ [][NextNew]_vars

\* C14: construction makes exactly one node call, a status query; when it succeeds the
\* chain id of the client context and of the transaction factory is the network name
\* the node reported, and when it fails construction fails and yields no client.
C14_OneStatusCallCapturesChainID ==
    /\ pc = "new" => calls = <<>>
    /\ (op = "New" /\ pc = "done") =>
          /\ Len(calls) = 1
          /\ calls[1].call = "Status"
          /\ calls[1].out = "ok" =>
                /\ err = <<>>
                /\ client.chainID = network
                /\ client.TxFactory.chainID = network
          /\ calls[1].out # "ok" => (err # <<>> /\ client = NoClient)

C14_Witness ==
    /\ op = "New"
    /\ pc = "done"
    /\ err = <<>>
    /\ network = "gitshock"
    /\ client.TxFactory.chainID = "gitshock"
    /\ cfg.fees # EmptyString

----------------------------------------------------------------------------
(* Account and address resolution *)

\* Account and Address calls made on one client
MaxLookups == 3

TestPrefix == <<"t", "e", "s", "t">>
Prefixes == {CosmosPrefix, TestPrefix}

\* shortest string bech32 decoding accepts: one prefix character, the separator, six more
Bech32MinLength == 8

RECURSIVE Itoa(_)
Itoa(n) == IF n < 10 THEN <<Digits[n + 1]>> ELSE Itoa(n \div 10) \o <<Digits[(n % 10) + 1]>>

\* Account.Address(prefix)
Address(a, pfx) == Bech32Encode(pfx, a.key)

\* position of the last separator of s, 0 when it has none
LastSeparator(s) ==
    IF \E i \in 1..Len(s) : s[i] = "1"
    THEN CHOOSE i \in 1..Len(s) : s[i] = "1" /\ \A j \in (i + 1)..Len(s) : s[j] # "1"
    ELSE 0

errDecodeLength(n) ==
    <<[msg |-> "decoding bech32 failed", arg |-> <<>>],
      [msg |-> "invalid bech32 string length", arg |-> Itoa(n)]>>

errDecodeSeparator ==
    <<[msg |-> "decoding bech32 failed", arg |-> <<>>],
      [msg |-> "invalid separator index", arg |-> <<>>]>>

errDecodePrefix(want, got) ==
    <<[msg |-> "invalid Bech32 prefix; expected", arg |-> want],
      [msg |-> "got", arg |-> got]>>

errAccountDoesNotExist(id) == <<[msg |-> "account does not exist", arg |-> id]>>

\* decoding that starts at the separator, whatever the length
DecodeBech32AnyLength(s, pfx) ==
    IF LastSeparator(s) < 2 THEN [key |-> <<>>, err |-> errDecodeSeparator]
    ELSE IF SubSeq(s, 1, LastSeparator(s) - 1) # pfx
    THEN [key |-> <<>>, err |-> errDecodePrefix(pfx, SubSeq(s, 1, LastSeparator(s) - 1))]
    ELSE [key |-> SubSeq(s, LastSeparator(s) + 1, Len(s)), err |-> <<>>]

\* the key bytes of an address written under pfx, or why s is not one
DecodeBech32(s, pfx) ==
    IF Len(s) < Bech32MinLength THEN [key |-> <<>>, err |-> errDecodeLength(Len(s))]
    ELSE IF LastSeparator(s) < 2 THEN [key |-> <<>>, err |-> errDecodeSeparator]
    ELSE IF SubSeq(s, 1, LastSeparator(s) - 1) # pfx
    THEN [key |-> <<>>, err |-> errDecodePrefix(pfx, SubSeq(s, 1, LastSeparator(s) - 1))]
    ELSE [key |-> SubSeq(s, LastSeparator(s) + 1, Len(s)), err |-> <<>>]

Unknown == <<"u", "n", "k", "n", "o", "w", "n">>

\* what callers hand to Account and Address
Identifiers ==
    {Bob.name, Alice.name, Unknown,
     Bech32Encode(CosmosPrefix, Bob.key), Bech32Encode(TestPrefix, Bob.key),
     Bech32Encode(CosmosPrefix, Alice.key),
     <<"u", "n", "k", "n", "o", "w", "n", "s">>}

GetByName(kr, name) ==
    IF \E a \in kr : a.name = name
    THEN [acc |-> CHOOSE a \in kr : a.name = name, err |-> <<>>]
    ELSE [acc |-> NoAccount, err |-> errAccountDoesNotExist(name)]

GetByAddress(kr, pfx, address) ==
    IF DecodeBech32(address, pfx).err # <<>>
    THEN [acc |-> NoAccount, err |-> DecodeBech32(address, pfx).err]
    ELSE IF \E a \in kr : a.key = DecodeBech32(address, pfx).key
    THEN [acc |-> CHOOSE a \in kr : a.key = DecodeBech32(address, pfx).key, err |-> <<>>]
    ELSE [acc |-> NoAccount, err |-> errAccountDoesNotExist(address)]

\* Client.Account: by address when the identifier is one, by name otherwise
ResolveAccount(kr, pfx, id) ==
    IF DecodeBech32(id, pfx).err = <<>> THEN GetByAddress(kr, pfx, id)
    ELSE IF GetByName(kr, id).err = <<>> THEN GetByName(kr, id)
    ELSE GetByAddress(kr, pfx, id)

\* Client.Address: the address, under the client's prefix, of the account of that name
ResolveAddress(kr, pfx, name) ==
    IF GetByName(kr, name).err = <<>>
    THEN [address |-> Address(GetByName(kr, name).acc, pfx), err |-> <<>>]
    ELSE [address |-> <<>>, err |-> GetByName(kr, name).err]

AccountFrame ==
    UNCHANGED <<cfg, op, pc, calls, txf, res, err, height, hasDeadline, expired, target, hash,
                clientVars, queryVars, parked, prefix, keyring>>

Account ==
    /\ Len(lookups) < MaxLookups
    /\ \E id \in Identifiers :
          lookups' = Append(lookups,
              [op |-> "Account", id |-> id, held |-> keyring, acc |-> ResolveAccount(keyring, prefix, id).acc,
               address |-> <<>>, err |-> ResolveAccount(keyring, prefix, id).err])
    /\ AccountFrame

\* Client.Address registering an account under a name it does not find
ClientAddressCreatingAccount ==
    /\ Len(lookups) < MaxLookups
    /\ \E id \in Identifiers :
          /\ lookups' = Append(lookups,
                [op |-> "Address", id |-> id, held |-> keyring, acc |-> NoAccount,
                 address |-> ResolveAddress(keyring, prefix, id).address,
                 err |-> ResolveAddress(keyring, prefix, id).err])
          /\ keyring' = IF ResolveAddress(keyring, prefix, id).err = <<>>
                          THEN keyring
                          ELSE keyring \cup {[name |-> id, key |-> Alice.key]}
    /\ UNCHANGED <<cfg, op, pc, calls, txf, res, err, height, hasDeadline, expired, target, hash,
                   clientVars, queryVars, parked, prefix>>

ClientAddress ==
    /\ Len(lookups) < MaxLookups
    /\ \E id \in Identifiers :
          lookups' = Append(lookups,
              [op |-> "Address", id |-> id, held |-> keyring, acc |-> NoAccount,
               address |-> ResolveAddress(keyring, prefix, id).address,
               err |-> ResolveAddress(keyring, prefix, id).err])
    /\ AccountFrame

NextAccount ==
    \/ Import
    \/ Account
    \/ ClientAddress

InitAccount ==
    /\ cfg = DefaultConfig
    /\ op = "none"
    /\ pc = "idle"
    /\ calls = <<>>
    /\ txf = TxFactory
    /\ res = NoResult
    /\ err = <<>>
    /\ height = 0
    /\ hasDeadline = FALSE
    /\ expired = FALSE
    /\ target = 0
    /\ hash = <<>>
    /\ client = Constructed(ChainID, cfg)
    /\ network = ChainID
    /\ prefix \in Prefixes
    /\ keyring = {}
    /\ lookups = <<>>
    /\ q = NoQuery
    /\ qops = <<>>
    /\ heap = <<>>
    /\ derived = <<>>
    /\ parked = NoCall

SpecAccount == InitAccount /\ [][NextAccount]_vars

----------------------------------------------------------------------------
(* Properties of account and address resolution *)

\* positions of the last separator of an identifier that has a prefix before it
Separators(id) ==
    {k \in 2..Len(id) : id[k] = "1" /\ \A j \in (k + 1)..Len(id) : id[j] # "1"}

\* the identifier reads as an address under the client's prefix
IsAddress(id) == Len(id) >= 8 /\ \E k \in Separators(id) : SubSeq(id, 1, k - 1) = prefix

HeldByAddress(kr, id) ==
    {a \in kr : \E k \in Separators(id) : SubSeq(id, k + 1, Len(id)) = a.key}

HeldByName(kr, id) == {a \in kr : a.name = id}

\* C11: Account resolves an identifier that is a valid address under the configured
\* prefix by address, and any other identifier by name, among the accounts the
\* registry holds at the time of the call; an address held by no account
\* fails with 'account "<identifier>" does not exist', an identifier that is neither an
\* address nor a name fails with the bech32 decoding error (for "unknown": invalid
\* bech32 string length 7).
C11_AccountByAddressElseByName ==
    \A i \in 1..Len(lookups) :
        lookups[i].op = "Account" =>
            LET l == lookups[i] IN
            /\ (IsAddress(l.id) /\ HeldByAddress(l.held, l.id) # {})
                  => (l.err = <<>> /\ l.acc \in HeldByAddress(l.held, l.id))
            /\ (IsAddress(l.id) /\ HeldByAddress(l.held, l.id) = {})
                  => l.err = <<[msg |-> "account does not exist", arg |-> l.id]>>
            /\ (~IsAddress(l.id) /\ HeldByName(l.held, l.id) # {})
                  => (l.err = <<>> /\ l.acc \in HeldByName(l.held, l.id))
            /\ (~IsAddress(l.id) /\ HeldByName(l.held, l.id) = {})
                  => (l.err # <<>> /\ l.err[1].msg # "account does not exist")
            /\ (l.id = <<"u", "n", "k", "n", "o", "w", "n">> /\ HeldByName(l.held, l.id) = {})
                  => l.err = <<[msg |-> "decoding bech32 failed", arg |-> <<>>],
                               [msg |-> "invalid bech32 string length", arg |-> <<"7">>]>>

C11_Witness ==
    /\ Len(lookups) = 3
    /\ lookups[1].op = "Account" /\ lookups[1].id = Shadow.name /\ lookups[1].acc = Bob
    /\ lookups[2].op = "Account" /\ lookups[2].id = Unknown
    /\ lookups[2].err[1].msg = "decoding bech32 failed"
    /\ lookups[3].op = "Account" /\ lookups[3].id = Bech32Encode(CosmosPrefix, Alice.key)
    /\ lookups[3].err = <<[msg |-> "account does not exist", arg |-> lookups[3].id]>>

\* the accounts of a keyring that an Import brought in
Imported(kr) == kr \cap Accounts

\* the outcome of a logged resolution
Outcome(l) == [acc |-> l.acc, address |-> l.address, err |-> l.err]

----------------------------------------------------------------------------
(* Two calls on one client *)

\* the state one CreateTx or WaitForTx call owns; interleaved records, for the pair,
\* that a call was resumed while both were in flight
Locals ==
    [op |-> op, pc |-> pc, calls |-> calls, txf |-> txf, res |-> res, err |-> err,
     hasDeadline |-> hasDeadline, expired |-> expired, target |-> target, hash |-> hash,
     interleaved |-> parked.interleaved]

\* a call that has not started
FreshCall ==
    [op |-> "none", pc |-> "idle", calls |-> <<>>, txf |-> client.TxFactory, res |-> NoResult,
     err |-> <<>>, hasDeadline |-> FALSE, expired |-> FALSE, target |-> 0, hash |-> <<>>,
     interleaved |-> FALSE]

\* both calls have started and neither has returned
BothInFlight == pc \notin {"idle", "done"} /\ parked.pc \notin {"idle", "done"}

\* a switch that leaves the factory state where it is, for the other call to work on
SwitchSharingFactory ==
    /\ parked # NoCall
    /\ pc # "idle"
    /\ parked.pc # "done"
    /\ parked' = [Locals EXCEPT !.interleaved = @ \/ BothInFlight]
    /\ op' = parked.op
    /\ pc' = parked.pc
    /\ calls' = parked.calls
    /\ res' = parked.res
    /\ err' = parked.err
    /\ hasDeadline' = parked.hasDeadline
    /\ expired' = parked.expired
    /\ target' = parked.target
    /\ hash' = parked.hash
    /\ UNCHANGED <<clientVars, accountVars, queryVars, cfg, height, txf>>

\* the running call is suspended at a round trip and the other call of the client runs
Switch ==
    /\ parked # NoCall
    /\ pc # "idle"
    /\ parked.pc # "done"
    /\ parked' = [Locals EXCEPT !.interleaved = @ \/ BothInFlight]
    /\ op' = parked.op
    /\ pc' = parked.pc
    /\ calls' = parked.calls
    /\ txf' = parked.txf
    /\ res' = parked.res
    /\ err' = parked.err
    /\ hasDeadline' = parked.hasDeadline
    /\ expired' = parked.expired
    /\ target' = parked.target
    /\ hash' = parked.hash
    /\ UNCHANGED <<clientVars, accountVars, queryVars, cfg, height>>

\* configurations of the client the two calls run on: the default one, and those in
\* which CreateTx writes a simulated gas limit into its factory
ConcurrentConfigs ==
    {DefaultConfig}
        \cup {c \in Configs : c.gasAdjustment = DefaultGasAdjustment /\ c.gas = EmptyString}

NextConcurrent ==
    \/ CreateTx
    \/ CheckAccountBalance
    \/ FaucetTransfer
    \/ RecheckAccountBalance
    \/ EnsureExists
    \/ GetAccountNumberSequence
    \/ ResolveGasPolicy
    \/ CalculateGas
    \/ BuildUnsignedTx
    \/ WaitForTx
    \/ GetTx
    \/ LatestBlockHeight
    \/ QueryStatus
    \/ Tick
    \/ TimeoutExceeded
    \/ NewBlock
    \/ DeadlineElapses
    \/ Switch

InitConcurrent ==
    /\ cfg \in ConcurrentConfigs
    /\ op = "none"
    /\ pc = "idle"
    /\ calls = <<>>
    /\ txf = TxFactory
    /\ res = NoResult
    /\ err = <<>>
    /\ height = 0
    /\ hasDeadline = FALSE
    /\ expired = FALSE
    /\ target = 0
    /\ hash = <<>>
    /\ client = Constructed(ChainID, cfg)
    /\ network = ChainID
    /\ prefix = CosmosPrefix
    /\ keyring = {}
    /\ lookups = <<>>
    /\ q = NoQuery
    /\ qops = <<>>
    /\ heap = <<>>
    /\ derived = <<>>
    /\ parked = FreshCall

SpecConcurrent == InitConcurrent /\ [][NextConcurrent]_vars

----------------------------------------------------------------------------
(* Properties of two calls on one client *)

\* a call has the outcome, and while it runs the factory state, that its own round
\* trips and the client's configuration give it when nothing else runs
AsWhenAlone(l) ==
    /\ (l.op = "CreateTx" /\ l.pc = "done" /\ l.err = <<>>) =>
          /\ l.res.accountNumber = 1
          /\ l.res.sequence = 2
          /\ l.calls[Len(l.calls)].out = "ok"
          /\ cfg.gas = <<>> =>
                /\ l.calls[Len(l.calls)].call = "CalculateGas"
                /\ l.res.gasLimit = l.calls[Len(l.calls)].val + 20000
          /\ cfg.gas = <<"3", "0", "0", "0", "0", "0">> => l.res.gasLimit = 300000
          /\ cfg.gasPrices = <<"3", "t", "o", "k", "e", "n">> =>
                l.res.feeAmount
                    = <<[denom |-> <<"t", "o", "k", "e", "n">>, amount |-> 3 * l.res.gasLimit]>>
          /\ cfg.fees = <<"1", "0", "t", "o", "k", "e", "n">> =>
                l.res.feeAmount = <<[denom |-> <<"t", "o", "k", "e", "n">>, amount |-> 10]>>
          /\ (cfg.fees = <<>> /\ cfg.gasPrices = <<>>) => l.res.feeAmount = <<>>
    /\ (l.op = "CreateTx" /\ l.pc = "done" /\ l.err # <<>>) =>
          /\ l.res = [kind |-> "none"]
          /\ \/ /\ l.calls[Len(l.calls)].out # "ok"
                /\ l.err[Len(l.err)].msg = l.calls[Len(l.calls)].out
             \/ /\ cfg.fees # <<>>
                /\ cfg.gasPrices # <<>>
                /\ l.err = <<[msg |-> "cannot provide both fees and gas prices", arg |-> <<>>]>>
    /\ (l.op = "WaitForTx" /\ l.pc = "done" /\ l.err = <<>>) =>
          /\ l.calls[Len(l.calls)].call = "Tx"
          /\ l.calls[Len(l.calls)].out = "ok"
          /\ l.res = [kind |-> "resultTx", hash |-> l.hash]
    /\ l.op = "WaitForTx" => l.txf = client.TxFactory
    /\ (l.op = "CreateTx"
          /\ \A i \in 1..Len(l.calls) :
                ~(l.calls[i].call = "GetAccountNumberSequence" /\ l.calls[i].out = "ok"))
          => l.txf = client.TxFactory
    /\ (l.op = "CreateTx" /\ l.pc \in {"gasPolicy", "calculateGas"}) =>
          l.txf = [client.TxFactory EXCEPT !.accountNumber = 1, !.sequence = 2]
    /\ (l.op = "CreateTx" /\ l.pc = "build" /\ cfg.gas = <<>>) =>
          /\ l.calls[Len(l.calls)].call = "CalculateGas"
          /\ l.txf.gas = l.calls[Len(l.calls)].val + 20000
          /\ l.txf.accountNumber = 1
          /\ l.txf.sequence = 2
    /\ \A i \in 1..Len(l.calls) :
          /\ l.op = "CreateTx" => l.calls[i].call \notin {"Tx", "Status"}
          /\ l.op = "WaitForTx" => l.calls[i].call \in {"Tx", "Status"}

C15_WaitForTxPairReached ==
    /\ parked.interleaved
    /\ op = "WaitForTx" /\ pc = "done" /\ err = <<>> /\ Len(calls) = 4
    /\ parked.op = "WaitForTx" /\ parked.pc = "done" /\ parked.err = <<>>
    /\ Len(parked.calls) = 1

----------------------------------------------------------------------------
(* Properties of the sleep between polls *)

\* the call is in the sleep between two status queries and its deadline is over
SleepingPastDeadline ==
    /\ op \in {"WaitForBlockHeight", "WaitForTx"}
    /\ pc = "sleep"
    /\ expired

\* C21: once the deadline is over while WaitForBlockHeight, or WaitForTx's wait for
\* the next block, sleeps between two polls, the only step the call takes is to
\* return "timeout exceeded waiting for block: context deadline exceeded"; it issues
\* no further node query, so the last query of a call that ended this way is the
\* status query before that sleep, which reported a height below the target.
C21_SleepAbortsOnDeadline ==
    /\ [][SleepingPastDeadline =>
            /\ calls' = calls
            /\ pc' # pc =>
                  /\ pc' = "done"
                  /\ res' = [kind |-> "none"]
                  /\ err' = <<[msg |-> "timeout exceeded waiting for block", arg |-> <<>>],
                              [msg |-> "context deadline exceeded", arg |-> <<>>]>>]_vars
    /\ []((/\ op \in {"WaitForBlockHeight", "WaitForTx"}
           /\ pc = "done"
           /\ err # <<>>
           /\ err[1].msg = "timeout exceeded waiting for block")
            => /\ expired
               /\ calls[Len(calls)].call = "Status"
               /\ calls[Len(calls)].out = "ok"
               /\ calls[Len(calls)].val < target)

\* the deadline ran out during the third sleep: all three status queries preceded it
C21_Witness ==
    /\ op = "WaitForBlockHeight"
    /\ pc = "done"
    /\ err # <<>>
    /\ err[1].msg = "timeout exceeded waiting for block"
    /\ Len(calls) = 3
    /\ \A i \in 1..3 : ~calls[i].late

----------------------------------------------------------------------------
(* Properties of a failing funding gate *)

\* the funding gate's calls that failed, by position in the call log
FailedGateCalls ==
    {i \in 1..Len(calls) : calls[i].call \in {"Balance", "Transfer"} /\ calls[i].out # "ok"}

\* C22: a failed funding request or balance query is the last collaborator call of
\* CreateTx: the call has returned no transaction and an error whose cause is that
\* failure, and no account-existence check, sequence fetch or gas estimation was made.
C22_FundingGateFailureStops ==
    (op = "CreateTx" /\ FailedGateCalls # {}) =>
        /\ FailedGateCalls = {Len(calls)}
        /\ pc = "done"
        /\ res = [kind |-> "none"]
        /\ err # <<>>
        /\ err[Len(err)].msg = calls[Len(calls)].out
        /\ \A i \in 1..Len(calls) :
              calls[i].call \notin {"EnsureExists", "GetAccountNumberSequence", "CalculateGas"}

C22_Witness ==
    /\ op = "CreateTx"
    /\ pc = "done"
    /\ Len(calls) = 2
    /\ calls[1].call = "Balance"
    /\ calls[1].val = 99
    /\ calls[2].call = "Transfer"
    /\ calls[2].out = "oups"
    /\ cfg.gas = <<>>

----------------------------------------------------------------------------
(* Properties of a literal gas option *)

\* C23: with a gas option that is neither empty nor "auto" (a client built without a
\* gas option has the default limit as its option), CreateTx never asks the gas
\* estimator; it fails only through a failed collaborator call or a fees and gas
\* prices conflict, and when it succeeds the gas limit is the option's value if it
\* parses as an integer ("300000", "7") and the default 300000 if it does not
\* ("x", "7x").
C23_LiteralGasWithoutEstimation ==
    (op = "CreateTx" /\ cfg.gas \notin {<<>>, <<"a", "u", "t", "o">>}) =>
        /\ \A i \in 1..Len(calls) : calls[i].call # "CalculateGas"
        /\ pc # "calculateGas"
        /\ (pc = "done" /\ err = <<>>) =>
              /\ cfg.gas = <<"3", "0", "0", "0", "0", "0">> => res.gasLimit = 300000
              /\ cfg.gas = <<"7">> => res.gasLimit = 7
              /\ cfg.gas = <<"x">> => res.gasLimit = 300000
              /\ cfg.gas = <<"7", "x">> => res.gasLimit = 300000
        /\ (pc = "done" /\ err # <<>>) =>
              \/ calls[Len(calls)].out # "ok"
              \/ (cfg.fees # <<>> /\ cfg.gasPrices # <<>>)

C23_Witness ==
    /\ op = "CreateTx"
    /\ pc = "done"
    /\ err = <<>>
    /\ cfg.gas = <<"7", "x">>
    /\ res.gasLimit = 300000
    /\ res.feeAmount = <<[denom |-> <<"t", "o", "k", "e", "n">>, amount |-> 900000]>>

----------------------------------------------------------------------------
(* Queries derived from one base query *)

\* queries derived from q and kept beside it
MaxDerived == 2

\* what the deriving calls append
DerivedFilterLists == {<<"g1">>, <<"g2">>, <<"g2", "g1">>}
DerivedFieldLists == {<<3>>, <<4, 3>>}

RECURSIVE SortEntries(_, _)
SortEntries(order, fields) ==
    IF fields = <<>> THEN <<>>
    ELSE <<[Field |-> fields[1], Order |-> order]>> \o SortEntries(order, Tail(fields))

\* q is still being built: nothing was derived from it yet
Base_AppendSortBy ==
    /\ derived = <<>>
    /\ Query_AppendSortBy

Base_AppendFilters ==
    /\ derived = <<>>
    /\ Query_AppendFilters

\* q2 := q.AppendFilters(f...), q itself being kept
Derive_AppendFilters ==
    /\ q # NoQuery
    /\ Len(derived) < MaxDerived
    /\ \E f \in DerivedFilterLists :
          /\ heap' = AppendFilters(heap, q, f).heap
          /\ derived' = Append(derived,
                [via |-> "filters", query |-> AppendFilters(heap, q, f).q,
                 base |-> GetFilters(heap, q), own |-> f])
    /\ UNCHANGED <<q, qops>>
    /\ QueryFrame

\* q2 := q.AppendSortBy(order, fields...), q itself being kept
Derive_AppendSortBy ==
    /\ q # NoQuery
    /\ Len(derived) < MaxDerived
    /\ \E order \in {SortOrderAsc, SortOrderDesc}, f \in DerivedFieldLists :
          /\ heap' = AppendSortBy(heap, q, order, f).heap
          /\ derived' = Append(derived,
                [via |-> "sortBy", query |-> AppendSortBy(heap, q, order, f).q,
                 base |-> GetSortBy(heap, q), own |-> SortEntries(order, f)])
    /\ UNCHANGED <<q, qops>>
    /\ QueryFrame

NextDerive ==
    \/ Query_New
    \/ Query_NewCall
    \/ Base_AppendSortBy
    \/ Base_AppendFilters
    \/ Derive_AppendFilters
    \/ Derive_AppendSortBy

SpecDerive == InitQuery /\ [][NextDerive]_vars

\* what is seen through a derived query of the list it was derived on
Seen(d) ==
    IF d.via = "filters" THEN GetFilters(heap, d.query) ELSE GetSortBy(heap, d.query)

\* C24: a call that derives a query leaves the filters and sort entries seen through
\* q as they were, and every derived query shows the entries q had when it was
\* derived followed by exactly the entries of its own call, in argument order,
\* whatever was derived from q afterwards.
C24_DerivedQueriesIndependent ==
    /\ [](\A i \in 1..Len(derived) : Seen(derived[i]) = derived[i].base \o derived[i].own)
    /\ [][q' = q => (/\ GetFilters(heap', q) = GetFilters(heap, q)
                     /\ GetSortBy(heap', q) = GetSortBy(heap, q))]_vars

\* the entry a first derived query appended has been replaced by the entry a second
\* one appended
C24_Witness ==
    /\ Len(derived) = 2
    /\ derived[1].via = "filters"
    /\ derived[2].via = "filters"
    /\ derived[1].own = <<"g1">>
    /\ derived[2].own = <<"g2">>
    /\ derived[1].base = <<"f1", "f2", "f1">>
    /\ Seen(derived[1]) = <<"f1", "f2", "f1", "g2">>
    /\ Seen(derived[2]) = <<"f1", "f2", "f1", "g2">>
    /\ GetFilters(heap, q) = <<"f1", "f2", "f1">>

====
